---- MODULE Spec2Model ----
(***************************************************************************)
(* Model of src-tauri/src/services/ffmpeg.rs: merge (the orchestrator that *)
(* joins the FFmpeg process with the progress monitor) and monitor (the    *)
(* tailer of FFmpeg's -progress log).                                      *)
(*                                                                         *)
(* Text is modelled as sequences of one-character strings, so that         *)
(* read_line, trim, split_once and the number parsers are computed as the  *)
(* code computes them, and file offsets are byte offsets.                  *)
(***************************************************************************)
EXTENDS Integers, Sequences, FiniteSets, TLC

(***************************************************************************)
(* Text helpers                                                            *)
(***************************************************************************)

NL == "\n"

Digits == <<"0", "1", "2", "3", "4", "5", "6", "7", "8", "9">>

IsDigit(c) == \E i \in 1..10 : Digits[i] = c

DigitVal(c) == (CHOOSE i \in 1..10 : Digits[i] = c) - 1

IsSpace(c) == c \in {" ", "\n", "\t", "\r"}

AllDigits(s) == \A i \in 1..Len(s) : IsDigit(s[i])

\* str::trim: strip leading and trailing whitespace.
Trim(s) ==
    LET idx == {i \in 1..Len(s) : ~IsSpace(s[i])}
    IN  IF idx = {} THEN <<>>
        ELSE LET lo == CHOOSE i \in idx : \A j \in idx : i <= j
                 hi == CHOOSE i \in idx : \A j \in idx : i >= j
             IN  SubSeq(s, lo, hi)

\* Index of the first occurrence of c in s, 0 when absent.
Find(s, c) ==
    LET idx == {i \in 1..Len(s) : s[i] = c}
    IN  IF idx = {} THEN 0 ELSE CHOOSE i \in idx : \A j \in idx : i <= j

\* str::split_once('='): None, or the text before and after the first '='.
SplitOnce(s) ==
    LET i == Find(s, "=")
    IN  IF i = 0 THEN [some |-> FALSE, key |-> <<>>, value |-> <<>>]
        ELSE [some |-> TRUE, key |-> SubSeq(s, 1, i - 1),
              value |-> SubSeq(s, i + 1, Len(s))]

\* Decimal value of a digit string.
RECURSIVE DecVal(_)
DecVal(s) ==
    IF s = <<>> THEN 0
    ELSE 10 * DecVal(SubSeq(s, 1, Len(s) - 1)) + DigitVal(s[Len(s)])

\* str::parse::<u64>: an optional '+', then one or more digits.  (The values
\* of the logs modelled here are far below 2^64, so the overflow error of the
\* parser is never met.)
ParseU64(s) ==
    LET body == IF s # <<>> /\ Head(s) = "+" THEN Tail(s) ELSE s
    IN  IF body # <<>> /\ AllDigits(body)
        THEN [ok |-> TRUE, n |-> DecVal(body)]
        ELSE [ok |-> FALSE, n |-> 0]

Lower(c) ==
    CASE c = "E" -> "e" [] c = "I" -> "i" [] c = "N" -> "n" [] c = "F" -> "f"
      [] c = "A" -> "a" [] c = "T" -> "t" [] c = "Y" -> "y" [] OTHER -> c

LowerAll(s) == [i \in 1..Len(s) |-> Lower(s[i])]

Unsigned(s) == IF s # <<>> /\ Head(s) \in {"+", "-"} THEN Tail(s) ELSE s

\* Digit+ | Digit+ '.' Digit* | Digit* '.' Digit+
IsMantissa(s) ==
    LET d == Find(s, ".")
    IN  IF d = 0 THEN s # <<>> /\ AllDigits(s)
        ELSE /\ AllDigits(SubSeq(s, 1, d - 1))
             /\ AllDigits(SubSeq(s, d + 1, Len(s)))
             /\ Len(s) > 1

\* 'e' Sign? Digit+
IsExponent(s) == Unsigned(s) # <<>> /\ AllDigits(Unsigned(s))

\* str::parse::<f64>: Sign? ('inf' | 'infinity' | 'nan' | Number Exp?).
\* finite is FALSE for the three special values.
ParseF64(s) ==
    LET u == LowerAll(Unsigned(s))
        e == Find(u, "e")
        special == u \in {<<"i", "n", "f">>, <<"n", "a", "n">>,
                          <<"i", "n", "f", "i", "n", "i", "t", "y">>}
        number == IF e = 0 THEN IsMantissa(u)
                  ELSE /\ IsMantissa(SubSeq(u, 1, e - 1))
                       /\ IsExponent(SubSeq(u, e + 1, Len(u)))
    IN  [ok |-> special \/ number, finite |-> ~special]

(***************************************************************************)
(* JSON values held by the rolling map                                     *)
(***************************************************************************)

JU64(n) == [t |-> "u64", n |-> n, s |-> <<>>]
JF64(s) == [t |-> "f64", n |-> 0, s |-> s]
JStr(s) == [t |-> "str", n |-> 0, s |-> s]
JNull == [t |-> "null", n |-> 0, s |-> <<>>]

\* The coercion of a trimmed value: u64 if it parses, else f64, else the
\* string itself.  json!(f64) of a non-finite number is Null.
Coerce(value) ==
    IF ParseU64(value).ok THEN JU64(ParseU64(value).n)
    ELSE IF ParseF64(value).ok
         THEN (IF ParseF64(value).finite THEN JF64(value) ELSE JNull)
         ELSE JStr(value)

(***************************************************************************)
(* FFmpegLog: the record a full window decodes to                          *)
(***************************************************************************)

K_frame == <<"f", "r", "a", "m", "e">>
K_fps == <<"f", "p", "s">>
K_stream_0_0_q == <<"s", "t", "r", "e", "a", "m", "_", "0", "_", "0", "_", "q">>
K_bitrate == <<"b", "i", "t", "r", "a", "t", "e">>
K_total_size == <<"t", "o", "t", "a", "l", "_", "s", "i", "z", "e">>
K_out_time_us == <<"o", "u", "t", "_", "t", "i", "m", "e", "_", "u", "s">>
K_out_time_ms == <<"o", "u", "t", "_", "t", "i", "m", "e", "_", "m", "s">>
K_out_time == <<"o", "u", "t", "_", "t", "i", "m", "e">>
K_dup_frames == <<"d", "u", "p", "_", "f", "r", "a", "m", "e", "s">>
K_drop_frames == <<"d", "r", "o", "p", "_", "f", "r", "a", "m", "e", "s">>
K_speed == <<"s", "p", "e", "e", "d">>
K_progress == <<"p", "r", "o", "g", "r", "e", "s", "s">>

\* The fields of struct FFmpegLog in declaration order.
FFmpegLogFields ==
    <<K_frame, K_fps, K_stream_0_0_q, K_bitrate, K_total_size, K_out_time_us,
      K_out_time_ms, K_out_time, K_dup_frames, K_drop_frames, K_speed,
      K_progress>>

\* u64 and u32 fields take an unsigned JSON integer (every integer of the
\* logs modelled here is below 2^32), f64 fields take any JSON number,
\* String fields take a JSON string.
UIntFields == {K_frame, K_total_size, K_out_time_us, K_out_time_ms,
               K_dup_frames, K_drop_frames}
FloatFields == {K_fps, K_stream_0_0_q}
StringFields == {K_bitrate, K_out_time, K_speed, K_progress}

FieldAccepts(f, v) ==
    IF f \in UIntFields THEN v.t = "u64"
    ELSE IF f \in FloatFields THEN v.t \in {"u64", "f64"}
    ELSE v.t = "str"

\* A decoder that looks at frame and progress only.
DecodableLax(map) ==
    /\ K_frame \in DOMAIN map
    /\ map[K_frame].t = "u64"
    /\ K_progress \in DOMAIN map
    /\ map[K_progress].t = "str"

\* serde_json::from_value::<FFmpegLog>(Value::Object(map)): every field must
\* be present with a value of its type; other entries are ignored.
Decodable(map) ==
    \A i \in 1..Len(FFmpegLogFields) :
        /\ FFmpegLogFields[i] \in DOMAIN map
        /\ FieldAccepts(FFmpegLogFields[i], map[FFmpegLogFields[i]])

W_continue == <<"c", "o", "n", "t", "i", "n", "u", "e">>
W_end == <<"e", "n", "d">>

(***************************************************************************)
(* The rolling window: keys (insertion order) and map                      *)
(***************************************************************************)

\* The window bound of monitor (keys.len() >= 12).
FieldCount == 12

EmptyMap == [k \in {} |-> JNull]

MapRemove(map, key) == [k \in (DOMAIN map) \ {key} |-> map[k]]

MapInsert(map, key, v) ==
    [k \in (DOMAIN map) \cup {key} |-> IF k = key THEN v ELSE map[k]]

\* The eviction test off by one (keys.len() > 12).
WindowFullLate(keys) == Len(keys) > FieldCount

WindowFull(keys) == Len(keys) >= FieldCount

\* The body of `if let Some((key, value)) = line.trim().split_once('=')`:
\* evict the oldest key when the window is full, then insert.
Insert(w, key, value) ==
    LET keys1 == IF WindowFull(w.keys) THEN Tail(w.keys) ELSE w.keys
        map1 == IF WindowFull(w.keys) THEN MapRemove(w.map, Head(w.keys))
                ELSE w.map
    IN  [keys |-> Append(keys1, key), map |-> MapInsert(map1, key, Coerce(value))]

\* One pass of the read_line loop body over the line just read.
ProcessLine(w, line) ==
    LET kv == SplitOnce(Trim(line))
    IN  IF kv.some THEN Insert(w, Trim(kv.key), Trim(kv.value)) ELSE w

\* read_line from offset pos (0-based count of bytes already consumed): the
\* offset after the next newline, or the end of the file when none follows.
LineEnd(file, pos) ==
    LET idx == {i \in (pos + 1)..Len(file) : file[i] = NL}
    IN  IF idx = {} THEN Len(file) ELSE CHOOSE i \in idx : \A j \in idx : i <= j

(***************************************************************************)
(* The progress log the FFmpeg process writes                              *)
(***************************************************************************)

Line(key, value) == key \o <<"=">> \o value \o <<NL>>

\* One snapshot group as FFmpeg's -progress writes it: the twelve fields in
\* this order, the progress line last.
Snapshot(frame, progress) ==
    Line(K_frame, frame)
    \o Line(K_fps, <<"2", "5", ".", "0">>)
    \o Line(K_stream_0_0_q, <<"-", "1", ".", "0">>)
    \o Line(K_bitrate, <<"N", "/", "A">>)
    \o Line(K_total_size, <<"4", "8">>)
    \o Line(K_out_time_us, <<"4", "0", "0">>)
    \o Line(K_out_time_ms, <<"4", "0", "0">>)
    \o Line(K_out_time, <<"0", "0", ":", "0", "1">>)
    \o Line(K_dup_frames, <<"0">>)
    \o Line(K_drop_frames, <<"0">>)
    \o Line(K_speed, <<" ", "1", ".", "5", "x">>)
    \o Line(K_progress, progress)

Frame1 == <<"1", "0">>
Frame2 == <<"2", "0">>

\* One snapshot ending in progress=continue, then one ending in progress=end.
RoundTripLog == Snapshot(Frame1, W_continue) \o Snapshot(Frame2, W_end)

LineEnds(text) == {i \in 1..Len(text) : text[i] = NL}

\* The offset after the n-th line of text.
EndOfLine(text, n) ==
    CHOOSE i \in LineEnds(text) : Cardinality({j \in LineEnds(text) : j <= i}) = n

\* FFmpeg writes a snapshot group with one write.
GroupEnds(text) ==
    {i \in LineEnds(text) :
        Cardinality({j \in LineEnds(text) : j <= i}) % Len(FFmpegLogFields) = 0}

\* Lines with arbitrary keys, for the rolling window: line i is `key_i=i`,
\* where the first twelve keys are the field names and the others are fresh;
\* line j repeats the key of line d (d = j: no key recurs).
WindowLines == 14

NumChars(n) ==
    IF n < 10 THEN <<Digits[n + 1]>>
    ELSE <<Digits[(n \div 10) + 1], Digits[(n % 10) + 1]>>

WindowKey(i) ==
    IF i <= Len(FFmpegLogFields) THEN FFmpegLogFields[i] ELSE <<"x">> \o NumChars(i)

RECURSIVE WindowText(_, _, _)
WindowText(d, j, n) ==
    IF n = 0 THEN <<>>
    ELSE WindowText(d, j, n - 1)
         \o Line(WindowKey(IF n = j THEN d ELSE n), NumChars(n))

\* A plan is what the process will have written when it is done (text) and
\* the file sizes its successive writes leave behind (cuts).
PlanIds ==
    {[kind |-> k, d |-> 0, j |-> 0] : k \in {"groups", "lines", "early", "partial", "typed"}}
    \cup {[kind |-> "window", d |-> d, j |-> j] :
            d \in 1..WindowLines, j \in 1..WindowLines}

\* The round-trip log is written group by group ("groups"), or with one more
\* write that ends after the third line of the second group ("lines"), after
\* the third line of the first group ("early"), or inside the first line of
\* the second group, after `frame=2` of `frame=20` ("partial").  The "typed"
\* plan is one write of the twelve fields with the values 1 to 12, a number
\* also where FFmpegLog has a String.
PartialCut == EndOfLine(RoundTripLog, Len(FFmpegLogFields)) + Len(K_frame) + 2

PlanOf(p) ==
    IF p.kind = "groups"
    THEN [text |-> RoundTripLog, cuts |-> GroupEnds(RoundTripLog)]
    ELSE IF p.kind = "lines"
    THEN [text |-> RoundTripLog,
          cuts |-> GroupEnds(RoundTripLog) \cup {EndOfLine(RoundTripLog, 15)}]
    ELSE IF p.kind = "early"
    THEN [text |-> RoundTripLog,
          cuts |-> GroupEnds(RoundTripLog) \cup {EndOfLine(RoundTripLog, 3)}]
    ELSE IF p.kind = "partial"
    THEN [text |-> RoundTripLog,
          cuts |-> GroupEnds(RoundTripLog) \cup {PartialCut}]
    ELSE IF p.kind = "typed"
    THEN [text |-> WindowText(0, 0, FieldCount),
          cuts |-> {Len(WindowText(0, 0, FieldCount))}]
    ELSE [text |-> WindowText(p.d, p.j, WindowLines),
          cuts |-> {Len(WindowText(p.d, p.j, WindowLines))}]

Plans == [p \in {q \in PlanIds : q.d <= q.j} |-> PlanOf(p)]

(***************************************************************************)
(* Job descriptors (QueueInfo) and the stream probe                        *)
(***************************************************************************)

NoPath == "None"
NoGid == "None"

Video(path, gid) == [task_type |-> "Video", path |-> path, gid |-> gid]
Audio(path, gid) == [task_type |-> "Audio", path |-> path, gid |-> gid]
Other(path, gid) == [task_type |-> "Merge", path |-> path, gid |-> gid]

Infos ==
    { [id |-> "job", ext |-> "mp4",
       tasks |-> <<Video("v.m4s", "g1"), Audio("a.m4s", "g2")>>],
      [id |-> "job", ext |-> "mkv",
       tasks |-> <<Audio("a.m4s", "g2"), Video("v.m4s", NoGid)>>],
      [id |-> "job", ext |-> "mp4", tasks |-> <<>>],
      [id |-> "job", ext |-> "mp4", tasks |-> <<Video("v.m4s", "g1")>>],
      [id |-> "job", ext |-> "mp4",
       tasks |-> <<Video("v.m4s", "g1"), Video("w.m4s", "g1")>>],
      [id |-> "job", ext |-> "mp4",
       tasks |-> <<Audio("a.m4s", "g2"), Audio("b.m4s", "g2")>>],
      [id |-> "job", ext |-> "mp4",
       tasks |-> <<Video(NoPath, "g1"), Audio("a.m4s", "g2")>>],
      [id |-> "job", ext |-> "flv",
       tasks |-> <<Other(NoPath, "g0"), Video("v.m4s", "g1"),
                   Audio("a.m4s", "g2")>>],
      [id |-> "job", ext |-> "",
       tasks |-> <<Other(NoPath, "g0"), Video("v.m4s", "g1"),
                   Audio("a.m4s", "g2")>>] }

\* iter().find(|v| v.task_type == t): the first task of type t, if any.
HasTask(tasks, t) == \E i \in 1..Len(tasks) : tasks[i].task_type = t

FindTask(tasks, t) ==
    tasks[CHOOSE i \in 1..Len(tasks) :
            /\ tasks[i].task_type = t
            /\ \A j \in 1..(i - 1) : tasks[j].task_type # t]

\* .find(..).map(|v| v.path.clone()).unwrap().unwrap() does not panic.
PathOf(tasks, t) == HasTask(tasks, t) /\ FindTask(tasks, t).path # NoPath

\* What get_stream_info can come to: the sidecar cannot be created (no
\* process runs), the probe runs but its stderr lacks a frame count or an
\* audio codec, or the probe yields (video_frames, audio_codec).
ProbeOutcomes ==
    { [spawned |-> FALSE, ok |-> FALSE, frames |-> 0, codec |-> ""],
      [spawned |-> TRUE, ok |-> FALSE, frames |-> 0, codec |-> ""],
      [spawned |-> TRUE, ok |-> TRUE, frames |-> 240, codec |-> "aac"],
      [spawned |-> TRUE, ok |-> TRUE, frames |-> 240, codec |-> "mp3"],
      [spawned |-> TRUE, ok |-> TRUE, frames |-> 5, codec |-> "opus"] }

\* A match that takes only aac for compatible.
CodecAacOnly(ext, audio_codec) ==
    IF ext \in {"mp4", "flv"}
    THEN (IF audio_codec = "aac" THEN "copy" ELSE "aac")
    ELSE "copy"

\* let codec = match ext { .. }: the -c:a argument.
Codec(ext, audio_codec) ==
    IF ext \in {"mp4", "flv"}
    THEN (IF audio_codec \in {"aac", "mp3"} THEN "copy" ELSE "aac")
    ELSE "copy"

(***************************************************************************)
(* Results of tasks and of merge                                           *)
(***************************************************************************)

Pending == [kind |-> "Pending", context |-> "", cause |-> "", code |-> 0]
Ok == [kind |-> "Ok", context |-> "", cause |-> "", code |-> 0]
Err(cause, code) == [kind |-> "Err", context |-> "", cause |-> cause, code |-> code]
Panic == [kind |-> "Panic", context |-> "", cause |-> "unwrap on None", code |-> 0]

WithContext(r, c) == IF r.kind = "Err" THEN [r EXCEPT !.context = c] ELSE r

\* ExitStatus::code() of the terminated process: Some(0), Some(1) or None.
SomeCode(v) == [some |-> TRUE, v |-> v]
NoCode == [some |-> FALSE, v |-> 0]
ExitStatuses == {SomeCode(0), SomeCode(1), NoCode}

\* result.status.success()
Success(status) == status.some /\ status.v = 0

\* The value of the `ffmpeg` async block once output() has returned.
FfmpegOutcome(status) ==
    IF Success(status) THEN Ok
    ELSE Err("FFmpeg exited with status", IF status.some THEN status.v ELSE -1)

\* A join that is ready as soon as either future is (a select).
TryJoinEither(f, m) ==
    IF f.kind # "Pending" THEN f ELSE m

\* A join that waits for both futures before it reports an error (join!).
TryJoinBoth(f, m) ==
    IF f.kind = "Pending" \/ m.kind = "Pending" THEN Pending
    ELSE IF f.kind = "Err" THEN f
    ELSE m

\* tokio::try_join!(ffmpeg, monitor): the first Err as soon as there is one,
\* Ok once both are Ok, pending otherwise.
TryJoin(f, m) ==
    IF f.kind = "Err" THEN f
    ELSE IF m.kind = "Err" THEN m
    ELSE IF f.kind = "Ok" /\ m.kind = "Ok" THEN Ok
    ELSE Pending

(***************************************************************************)
(* State                                                                   *)
(***************************************************************************)

VARIABLES
    info,         \* the job descriptor merge was called with
    plan,         \* which of Plans the FFmpeg process writes
    pc,           \* where merge stands: validate, mkdir, probe, join, done
    result,       \* what merge returned (Pending until it returns)
    stream_info,  \* (video_frames, audio_codec) of the probe
    codec,        \* the -c:a argument
    spawned,      \* the processes spawned so far
    proc,         \* the FFmpeg process: none, running, exited
    status,       \* its exit status, once it has exited
    exists,       \* progress_path.exists()
    written,      \* size of the progress file in bytes
    ffmpegRes,    \* value of the `ffmpeg` future
    monitorRes,   \* value of the `monitor` future
    mpc,          \* where monitor stands: idle, wait, loop, read, done
    last_size,    \* monitor's read cursor
    metaLen,      \* metadata.len() of the current iteration
    rpos,         \* offset of the reader in the current iteration
    keys,         \* monitor's keys (insertion order)
    map,          \* monitor's map
    events        \* what was sent on the channel, in order

vars == <<info, plan, pc, result, stream_info, codec, spawned, proc, status, exists,
          written, ffmpegRes, monitorRes, mpc, last_size, metaLen, rpos,
          keys, map, events>>

mergeVars == <<pc, result, stream_info, codec>>
procVars == <<spawned, proc, status, ffmpegRes>>
fileVars == <<exists, written>>
monitorVars == <<monitorRes, mpc, last_size, metaLen, rpos, keys, map, events>>

Text == Plans[plan].text
File == SubSeq(Text, 1, written)

\* The task monitor is given: the first Video task.
MonitorTask == FindTask(info.tasks, "Video")
Gid == IF MonitorTask.gid = NoGid THEN "" ELSE MonitorTask.gid

\* Progress with the current units clamped to the total.
ProgressClamped(total, frame) ==
    [type |-> "Progress", id |-> info.id, gid |-> Gid,
     content_length |-> total,
     chunk_length |-> IF frame > total THEN total ELSE frame]

\* Progress with its two lengths swapped.
ProgressSwapped(total, frame) ==
    [type |-> "Progress", id |-> info.id, gid |-> Gid,
     content_length |-> frame, chunk_length |-> total]

Started == [type |-> "Started", id |-> info.id, gid |-> Gid,
            content_length |-> 0, chunk_length |-> 0]
Progress(total, frame) ==
    [type |-> "Progress", id |-> info.id, gid |-> Gid,
     content_length |-> total, chunk_length |-> frame]
Finished == [type |-> "Finished", id |-> info.id, gid |-> Gid,
             content_length |-> 0, chunk_length |-> 0]

Init ==
    /\ info \in Infos
    /\ plan \in DOMAIN Plans
    /\ pc = "validate"
    /\ result = Pending
    /\ stream_info = [frames |-> 0, codec |-> ""]
    /\ codec = ""
    /\ spawned = {}
    /\ proc = "none"
    /\ status = NoCode
    /\ exists = FALSE
    /\ written = 0
    /\ ffmpegRes = Pending
    /\ monitorRes = Pending
    /\ mpc = "idle"
    /\ last_size = 0
    /\ metaLen = 0
    /\ rpos = 0
    /\ keys = <<>>
    /\ map = EmptyMap
    /\ events = <<>>

(***************************************************************************)
(* merge                                                                   *)
(***************************************************************************)

\* merge returns r.
Return(r) == pc' = "done" /\ result' = r

\* The length check off by one (len() < 1).
MergeValidateLax ==
    /\ pc = "validate"
    /\ \E dirOk \in BOOLEAN :
        IF Len(info.tasks) < 1
        THEN Return(Err("Insufficient number of input paths", Len(info.tasks)))
        ELSE IF ~PathOf(info.tasks, "Video") \/ ~PathOf(info.tasks, "Audio")
        THEN Return(Panic)
        ELSE IF ~dirOk THEN Return(Err("app_log_dir", 0))
        ELSE pc' = "mkdir" /\ result' = result
    /\ UNCHANGED <<info, plan, stream_info, codec, procVars, fileVars, monitorVars>>

\* Lines 67-85: the length check, the two find().unwrap().unwrap() and
\* app_log_dir()?.
MergeValidate ==
    /\ pc = "validate"
    /\ \E dirOk \in BOOLEAN :
        IF Len(info.tasks) < 2
        THEN Return(Err("Insufficient number of input paths", Len(info.tasks)))
        ELSE IF ~PathOf(info.tasks, "Video") \/ ~PathOf(info.tasks, "Audio")
        THEN Return(Panic)
        ELSE IF ~dirOk THEN Return(Err("app_log_dir", 0))
        ELSE pc' = "mkdir" /\ result' = result
    /\ UNCHANGED <<info, plan, stream_info, codec, procVars, fileVars, monitorVars>>

\* Lines 88-89: create_dir_all.
MergeCreateDir ==
    /\ pc = "mkdir"
    /\ \E ok \in BOOLEAN :
        IF ok THEN pc' = "probe" /\ result' = result
        ELSE Return(WithContext(Err("create_dir_all", 0),
                                "Failed to create FFmpeg progress Folder"))
    /\ UNCHANGED <<info, plan, stream_info, codec, procVars, fileVars, monitorVars>>

\* Lines 91-105: get_stream_info and the choice of the audio codec argument.
MergeProbe ==
    /\ pc = "probe"
    /\ \E o \in ProbeOutcomes :
        /\ spawned' = IF o.spawned THEN spawned \cup {"probe"} ELSE spawned
        /\ IF o.ok
           THEN /\ stream_info' = [frames |-> o.frames, codec |-> o.codec]
                /\ codec' = Codec(info.ext, o.codec)
                /\ pc' = "join"
                /\ result' = result
           ELSE /\ Return(WithContext(Err("get_stream_info", 0),
                                      "Failed to get stream info"))
                /\ UNCHANGED <<stream_info, codec>>
    /\ UNCHANGED <<info, plan, proc, status, ffmpegRes, fileVars, monitorVars>>

\* What merge makes of the two futures once one of them has moved (lines
\* 131-133): it returns as soon as try_join! is ready.
Join(f, m) ==
    IF TryJoin(f, m).kind = "Pending"
    THEN pc' = pc /\ result' = result
    ELSE Return(WithContext(TryJoin(f, m), "Failed to merge"))

\* First poll of the `ffmpeg` future (lines 107-116): sidecar()?, the
\* unwraps of paths[0] and paths[1], then the spawn inside output().
FfmpegStart ==
    /\ pc = "join"
    /\ proc = "none"
    /\ ffmpegRes = Pending
    /\ \E o \in {"sidecar_err", "spawn_err", "ok"} :
        IF o = "sidecar_err"
        THEN /\ ffmpegRes' = Err("sidecar", 0)
             /\ Join(ffmpegRes', monitorRes)
             /\ UNCHANGED <<spawned, proc, mpc>>
        ELSE IF info.tasks[1].path = NoPath \/ info.tasks[2].path = NoPath
        THEN /\ Return(Panic)
             /\ UNCHANGED <<spawned, proc, ffmpegRes, mpc>>
        ELSE IF o = "spawn_err"
        THEN /\ ffmpegRes' = Err("spawn", 0)
             /\ Join(ffmpegRes', monitorRes)
             /\ UNCHANGED <<spawned, proc, mpc>>
        ELSE /\ spawned' = spawned \cup {"ffmpeg"}
             /\ proc' = "running"
             /\ mpc' = "wait"
             /\ UNCHANGED <<pc, result, ffmpegRes>>
    /\ UNCHANGED <<info, plan, stream_info, codec, status, fileVars, monitorRes,
                   last_size, metaLen, rpos, keys, map, events>>

\* The process terminates; when merge still awaits it, output() returns and
\* the `ffmpeg` future completes (lines 116-124).
ProcessExit ==
    /\ proc = "running"
    /\ proc' = "exited"
    /\ status' \in ExitStatuses
    /\ IF pc = "join"
       THEN /\ ffmpegRes' = FfmpegOutcome(status')
            /\ Join(ffmpegRes', monitorRes)
       ELSE UNCHANGED <<pc, result, ffmpegRes>>
    /\ UNCHANGED <<info, plan, stream_info, codec, spawned, fileVars, monitorVars>>

(***************************************************************************)
(* The FFmpeg process writing its -progress file                           *)
(***************************************************************************)

WriterCreate ==
    /\ proc = "running"
    /\ ~exists
    /\ exists' = TRUE
    /\ UNCHANGED <<info, plan, mergeVars, procVars, written, monitorVars>>

WriterAppend ==
    /\ proc = "running"
    /\ exists
    /\ \E c \in Plans[plan].cuts :
        /\ c > written
        /\ \A d \in Plans[plan].cuts : d > written => c <= d
        /\ written' = c
    /\ UNCHANGED <<info, plan, mergeVars, procVars, exists, monitorVars>>

(***************************************************************************)
(* monitor                                                                 *)
(***************************************************************************)

\* Bound of the model: the number of events one run may send.  An idle poll
\* over a decodable window sends Progress again, without end.
MaxEvents == 4

\* A monitor that is still driven after merge has returned.
MonitorRunsDetached == pc \in {"join", "done"} /\ monitorRes = Pending

\* monitor is polled only while merge awaits the join and it has not returned.
MonitorRuns == pc = "join" /\ monitorRes = Pending

\* monitor returns r (to the join).
MonitorReturn(r) ==
    /\ monitorRes' = r
    /\ mpc' = "done"
    /\ Join(ffmpegRes, r)

\* The arms of the match mixed up.
ArmSwapped(progress) ==
    IF progress = W_continue THEN "Finished"
    ELSE IF progress = W_end THEN "Progress"
    ELSE "none"

\* match log_data.progress.as_str() (lines 206-223): which event, if any.
Arm(progress) ==
    IF progress = W_continue THEN "Progress"
    ELSE IF progress = W_end THEN "Finished"
    ELSE "none"

\* The cursor set to the number of bytes read in this iteration.
NextCursorRelative(meta, pos, cursor) == pos - cursor

\* last_size = metadata.len() (line 202): the cursor after an iteration whose
\* metadata length was meta, whose reader stopped at pos and whose cursor was
\* cursor.
NextCursor(meta, pos, cursor) == meta

\* Started sent without waiting for the file.
MonitorStartEarly ==
    /\ MonitorRuns
    /\ mpc = "wait"
    /\ \E sent \in BOOLEAN :
        IF sent
        THEN /\ events' = Append(events, Started)
             /\ mpc' = "loop"
             /\ UNCHANGED <<pc, result, monitorRes>>
        ELSE /\ MonitorReturn(Err("send", 0))
             /\ UNCHANGED events
    /\ last_size' = 0
    /\ map' = EmptyMap
    /\ keys' = <<>>
    /\ UNCHANGED <<info, plan, stream_info, codec, procVars, fileVars, metaLen, rpos>>

\* Lines 159-167: the file exists; send Started and initialise the loop.
MonitorStart ==
    /\ MonitorRuns
    /\ mpc = "wait"
    /\ exists
    /\ \E sent \in BOOLEAN :
        IF sent
        THEN /\ events' = Append(events, Started)
             /\ mpc' = "loop"
             /\ UNCHANGED <<pc, result, monitorRes>>
        ELSE /\ MonitorReturn(Err("send", 0))
             /\ UNCHANGED events
    /\ last_size' = 0
    /\ map' = EmptyMap
    /\ keys' = <<>>
    /\ UNCHANGED <<info, plan, stream_info, codec, procVars, fileVars, metaLen, rpos>>

\* Lines 170-180: metadata, open, seek to last_size.
MonitorMetadata ==
    /\ MonitorRuns
    /\ mpc = "loop"
    /\ Len(events) < MaxEvents
    /\ metaLen' = written
    /\ rpos' = last_size
    /\ mpc' = "read"
    /\ UNCHANGED <<info, plan, mergeVars, procVars, fileVars, monitorRes,
                   last_size, keys, map, events>>

\* Lines 181-201: read_line returned a line (n > 0); the loop body.
MonitorReadLine ==
    /\ MonitorRuns
    /\ mpc = "read"
    /\ rpos < written
    /\ LET w == ProcessLine([keys |-> keys, map |-> map],
                            SubSeq(File, rpos + 1, LineEnd(File, rpos)))
       IN  keys' = w.keys /\ map' = w.map
    /\ rpos' = LineEnd(File, rpos)
    /\ UNCHANGED <<info, plan, mergeVars, procVars, fileVars, monitorRes, mpc,
                   last_size, metaLen, events>>

\* Lines 202-224: read_line returned 0; advance the cursor, decode the
\* window and send the event of its progress value.
MonitorDecode ==
    /\ MonitorRuns
    /\ mpc = "read"
    /\ rpos >= written
    /\ last_size' = NextCursor(metaLen, rpos, last_size)
    /\ IF map = EmptyMap
       THEN /\ mpc' = "loop"
            /\ UNCHANGED <<pc, result, monitorRes, events>>
       ELSE IF ~Decodable(map)
       THEN /\ MonitorReturn(WithContext(Err("serde_json", 0),
                                         "Failed to parse FFmpeg Log"))
            /\ UNCHANGED events
       ELSE IF Arm(map[K_progress].s) = "none"
       THEN /\ mpc' = "loop"
            /\ UNCHANGED <<pc, result, monitorRes, events>>
       ELSE \E sent \in BOOLEAN :
            IF ~sent
            THEN MonitorReturn(Err("send", 0)) /\ UNCHANGED events
            ELSE IF Arm(map[K_progress].s) = "Progress"
            THEN /\ events' = Append(events,
                                Progress(stream_info.frames, map[K_frame].n))
                 /\ mpc' = "loop"
                 /\ UNCHANGED <<pc, result, monitorRes>>
            ELSE /\ events' = Append(events, Finished)
                 /\ MonitorReturn(Ok)
    /\ UNCHANGED <<info, plan, stream_info, codec, procVars, fileVars,
                   metaLen, rpos, keys, map>>

Next ==
    \/ MergeValidate
    \/ MergeCreateDir
    \/ MergeProbe
    \/ FfmpegStart
    \/ ProcessExit
    \/ WriterCreate
    \/ WriterAppend
    \/ MonitorStart
    \/ MonitorMetadata
    \/ MonitorReadLine
    \/ MonitorDecode

Spec == Init /\ [][Next]_vars

(***************************************************************************)
(* Properties                                                              *)
(***************************************************************************)

Sent(type) == \E i \in 1..Len(events) : events[i].type = type

\* C1: merge returns success only if the process has exited with a success
\* status and monitor has sent Finished and returned Ok.
C1_SuccessNeedsBoth ==
    result.kind = "Ok" =>
        /\ proc = "exited"
        /\ Success(status)
        /\ monitorRes.kind = "Ok"
        /\ Sent("Finished")

C1_Witness == result.kind = "Ok" /\ pc = "done"

\* C2: when the process exits with a non-zero status while monitor is still
\* in the existence wait or in the tail loop, merge returns in that very step
\* a failure that carries the exit status (-1 when there is no code), and no
\* Finished event is sent.
C2_ExitStatusReported ==
    [][ ( /\ proc = "running" /\ proc' = "exited"
          /\ pc = "join" /\ monitorRes = Pending
          /\ ~Success(status') )
        => ( /\ pc' = "done"
             /\ result'.kind = "Err"
             /\ result'.cause = "FFmpeg exited with status"
             /\ result'.code = (IF status'.some THEN status'.v ELSE -1)
             /\ events' = events
             /\ ~Sent("Finished") ) ]_vars

C2_Witness ==
    /\ result.cause = "FFmpeg exited with status"
    /\ result.code = -1
    /\ mpc = "read"
    /\ Sent("Progress")
    /\ ~Sent("Finished")

\* C3: when one of the two tasks fails, merge returns in that very step the
\* failure of that task, and once merge has returned nothing the other task
\* does is observed: the result, the futures' values and monitor's state and
\* events stay as they are.
C3_FirstFailureWins ==
    [][ /\ (pc = "join" /\ ffmpegRes.kind # "Err" /\ ffmpegRes'.kind = "Err")
            => (pc' = "done" /\ result' = WithContext(ffmpegRes', "Failed to merge"))
        /\ (pc = "join" /\ monitorRes.kind # "Err" /\ monitorRes'.kind = "Err")
            => (pc' = "done" /\ result' = WithContext(monitorRes', "Failed to merge"))
        /\ pc = "done"
            => /\ pc' = "done" /\ result' = result
               /\ ffmpegRes' = ffmpegRes
               /\ monitorVars' = monitorVars ]_vars

C3_Witness ==
    /\ result.kind = "Err"
    /\ result.context = "Failed to merge"
    /\ result.cause = "serde_json"
    /\ ffmpegRes = Pending
    /\ proc = "exited"

\* C4: with fewer than two tasks merge fails, and no process is ever spawned
\* and monitor never starts (no event is sent).
C4_TooFewTasks ==
    Len(info.tasks) < 2 =>
        /\ pc \in {"validate", "done"}
        /\ pc = "done" => result.kind = "Err"
        /\ spawned = {}
        /\ proc = "none"
        /\ mpc = "idle"
        /\ events = <<>>

C4_Witness ==
    /\ Len(info.tasks) = 1
    /\ pc = "done"
    /\ result.cause = "Insufficient number of input paths"

\* C5: Started is sent at most once, exactly once in every run that reaches
\* the tail loop, only once the file exists and before anything is read from
\* it, and it is the first event: no Progress or Finished precedes it.
C5_StartedOnceAndFirst ==
    /\ Cardinality({i \in 1..Len(events) : events[i].type = "Started"}) <= 1
    /\ events # <<>> => (events[1].type = "Started" /\ exists)
    /\ events = <<>> =>
        (rpos = 0 /\ metaLen = 0 /\ last_size = 0 /\ keys = <<>> /\ map = EmptyMap)
    /\ mpc \in {"loop", "read"} => Sent("Started")

C5_Witness ==
    /\ Len(events) >= 2
    /\ events[1].type = "Started"
    /\ events[2].type = "Progress"

\* C6: the events are Started, then Progress events, then at most one
\* Finished, which is the last event; Finished is sent only over a decoded
\* window whose progress is "end", and monitor has then returned Ok.
C6_EventShape ==
    /\ \A i \in 1..Len(events) :
        /\ i = 1 => events[i].type = "Started"
        /\ i > 1 => events[i].type \in {"Progress", "Finished"}
        /\ (i > 1 /\ i < Len(events)) => events[i].type = "Progress"
    /\ Sent("Finished") =>
        /\ monitorRes = Ok
        /\ mpc = "done"
        /\ Decodable(map)
        /\ map[K_progress] = JStr(W_end)

C6_Witness ==
    /\ Len(events) >= 3
    /\ events[2].type = "Progress"
    /\ events[Len(events)].type = "Finished"
    /\ monitorRes = Ok

RoundTrip == plan.kind \in {"groups", "lines", "early"}

\* C7 as stated: over the log of one snapshot ending in progress=continue and
\* one ending in progress=end, a monitor that has returned Ok has sent
\* exactly Started, one Progress with the first snapshot's frame, Finished.
C7_ExactlyOneProgress ==
    (RoundTrip /\ monitorRes = Ok) =>
        events = <<Started, Progress(stream_info.frames, DecVal(Frame1)), Finished>>

\* C7 as amended: over that log, written line by line, a monitor that has
\* returned Ok has sent Started, then zero or more Progress events, each with
\* the probe's frame count and the frame of one of the two snapshots, then
\* Finished.
C7_ProgressesThenFinished ==
    (RoundTrip /\ monitorRes = Ok) =>
        /\ Len(events) >= 2
        /\ events[1].type = "Started"
        /\ events[Len(events)].type = "Finished"
        /\ \A i \in 2..(Len(events) - 1) :
            /\ events[i].type = "Progress"
            /\ events[i].content_length = stream_info.frames
            /\ events[i].chunk_length \in {10, 20}

\* Idle polls between the two snapshots: Progress is sent twice.
C7_Witness ==
    /\ RoundTrip
    /\ monitorRes = Ok
    /\ Len(events) = 4
    /\ events[2].chunk_length = 10
    /\ events[3].chunk_length = 10
    /\ events[4].type = "Finished"

\* C8: every Progress event carries the probe's frame count as
\* content_length and, as chunk_length, the frame of the window decoded in
\* the iteration that sends it, unchanged.
C8_ProgressFields ==
    [][ ( /\ Len(events') = Len(events) + 1
          /\ events'[Len(events')].type = "Progress" )
        => ( /\ events'[Len(events')].content_length = stream_info.frames
             /\ events'[Len(events')].chunk_length = map[K_frame].n
             /\ map' = map ) ]_vars

C8_Witness ==
    \E i \in 1..Len(events) :
        /\ events[i].type = "Progress"
        /\ events[i].chunk_length = 10
        /\ events[i].content_length = 5

\* C9: keys and map never hold more than 12 entries.
C9_WindowBounded ==
    /\ Len(keys) <= 12
    /\ Cardinality(DOMAIN map) <= 12

C9_Witness ==
    /\ plan.kind = "window"
    /\ plan.d = plan.j
    /\ Len(keys) = 12
    /\ keys[1] = WindowKey(3)
    /\ keys[12] = WindowKey(14)
    /\ Cardinality(DOMAIN map) = 12

\* The number of lines of the plan monitor has read and processed so far (a
\* window plan is read from offset 0, in one iteration).
LinesRead == Cardinality({i \in LineEnds(Text) : i <= rpos})

\* The key of line i of a window plan.
PlanKey(i) == WindowKey(IF i = plan.j THEN plan.d ELSE i)

\* The last line among the first n that has the key of line i.
LatestOf(i, n) ==
    CHOOSE k \in 1..n :
        /\ PlanKey(k) = PlanKey(i)
        /\ \A m \in 1..n : PlanKey(m) = PlanKey(i) => m <= k

\* C10: after every processed line, every key of the last 12 lines read is in
\* the map with its latest value, also when a key recurs among them; and once
\* 13 lines with distinct keys have been read, the first key is gone.
C10_WindowHoldsRecent ==
    (plan.kind = "window" /\ mpc = "read") =>
        /\ \A i \in 1..LinesRead :
            i > LinesRead - 12 =>
                /\ PlanKey(i) \in DOMAIN map
                /\ map[PlanKey(i)] = JU64(LatestOf(i, LinesRead))
        /\ (plan.d = plan.j /\ LinesRead >= 13) => WindowKey(1) \notin DOMAIN map

\* C11: the read cursor never decreases: every step leaves last_size where it
\* is or moves it to a larger offset, and it never lies beyond the end of the
\* file.
C11_CursorMonotone ==
    [][last_size' >= last_size /\ last_size' <= written']_vars

\* The cursor has advanced in two iterations: past the first snapshot, which
\* was decoded on its own, and then to the end of the log.
C11_Witness ==
    /\ RoundTrip
    /\ Sent("Progress")
    /\ last_size = Len(Text)

\* C12: no byte is read in two iterations: the offset an iteration starts to
\* read at is never smaller than the offset the iteration before it read up
\* to.
C12_NoRereading ==
    [][(mpc = "loop" /\ mpc' = "read") => rpos' >= rpos]_vars

\* The join as the claim states it: it has completed as soon as either task
\* has finished, successfully or not.
C13_EitherEndsJoin ==
    (ffmpegRes # Pending \/ monitorRes # Pending) => pc = "done"

\* C13 as amended: the join completes with an error in the step in which
\* either task fails, completes successfully only in the step after which
\* both tasks have finished successfully, and stays pending while one task
\* has finished successfully and the other is still running; once it has
\* completed, the other task is no longer awaited: its future and monitor's
\* state change no more.
C13_JoinCompletion ==
    [][ /\ (pc = "join" /\ (ffmpegRes'.kind = "Err" \/ monitorRes'.kind = "Err"))
            => (pc' = "done" /\ result'.kind = "Err")
        /\ (pc = "join" /\ ffmpegRes' = Ok /\ monitorRes' = Ok)
            => (pc' = "done" /\ result' = Ok)
        /\ (pc = "join" /\ pc' = "done" /\ result' = Ok)
            => (ffmpegRes' = Ok /\ monitorRes' = Ok)
        /\ ( /\ pc = "join"
             /\ {ffmpegRes', monitorRes'} = {Ok, Pending} )
            => (pc' = "join" /\ result' = Pending)
        /\ pc = "done"
            => (ffmpegRes' = ffmpegRes /\ monitorVars' = monitorVars) ]_vars

\* The process has exited successfully, monitor is still tailing, and merge
\* is still waiting.
C13_Witness ==
    /\ pc = "join"
    /\ ffmpegRes = Ok
    /\ monitorRes = Pending
    /\ proc = "exited"
    /\ mpc \in {"loop", "read"}

\* C14: once the probe has succeeded, the -c:a argument is determined by the
\* output extension and the probed audio codec alone: for mp4 and flv it is
\* copy when the codec is aac or mp3 and aac otherwise; for every other
\* extension, the missing one included, it is copy.
C14_AudioMode ==
    codec # "" =>
        /\ pc \in {"join", "done"}
        /\ (info.ext \in {"mp4", "flv"} /\ stream_info.codec \in {"aac", "mp3"})
            => codec = "copy"
        /\ (info.ext \in {"mp4", "flv"} /\ stream_info.codec \notin {"aac", "mp3"})
            => codec = "aac"
        /\ info.ext \notin {"mp4", "flv"} => codec = "copy"

\* mp4 with an mp3 track: the process runs with -c:a copy.
C14_Witness ==
    /\ info.ext = "mp4"
    /\ stream_info.codec = "mp3"
    /\ codec = "copy"
    /\ "ffmpeg" \in spawned

\* C15: with two or more tasks of which none is a Video or none is an Audio
\* with a path, merge returns an error value, before any process is spawned.
C15_MissingTrackIsError ==
    ( /\ Len(info.tasks) >= 2
      /\ (~PathOf(info.tasks, "Video") \/ ~PathOf(info.tasks, "Audio")) )
    => ( /\ pc \in {"validate", "done"}
         /\ pc = "done" => result.kind = "Err"
         /\ spawned = {} )

\* A window that lacks a field of FFmpegLog or holds a value that is not of
\* the field's type.
Malformed(m) ==
    \E f \in UIntFields \cup FloatFields \cup StringFields :
        \/ f \notin DOMAIN m
        \/ (f \in UIntFields /\ m[f].t # "u64")
        \/ (f \in FloatFields /\ m[f].t \notin {"u64", "f64"})
        \/ (f \in StringFields /\ m[f].t # "str")

\* C16: an iteration that ends with a non-empty window that lacks a field or
\* holds a value of the wrong type sends no event and makes monitor return an
\* error, which merge returns; and a monitor that has returned an error sends
\* no event any more.
C16_DecodeFailureFatal ==
    [][ /\ (mpc = "read" /\ mpc' # "read" /\ map # EmptyMap /\ Malformed(map))
            => ( /\ events' = events
                 /\ mpc' = "done"
                 /\ monitorRes'.kind = "Err"
                 /\ monitorRes'.context = "Failed to parse FFmpeg Log"
                 /\ pc' = "done"
                 /\ result'.kind = "Err" )
        /\ monitorRes.kind = "Err"
            => (events' = events /\ mpc' = "done") ]_vars

\* All twelve fields are in the window, progress among them as a number.
C16_Witness ==
    /\ plan.kind = "typed"
    /\ Cardinality(DOMAIN map) = FieldCount
    /\ map[K_progress].t = "u64"
    /\ monitorRes.cause = "serde_json"
    /\ events = <<Started>>

\* The complete lines of the log of the plan.
WholeLines ==
    {SubSeq(Text, a + 1, LineEnd(Text, a)) : a \in ({0} \cup LineEnds(Text)) \ {Len(Text)}}

\* The window entry a line makes when it is read whole.
EntryOf(line) == ProcessLine([keys |-> <<>>, map |-> EmptyMap], line).map

\* C17: over the log of which one write ends inside a line, every entry of
\* the window is the key and the value of a complete line of the log: nothing
\* is inserted from a line whose end is not yet written.
C17_WholeLinesOnly ==
    plan.kind = "partial" =>
        \A k \in DOMAIN map :
            \E line \in WholeLines :
                /\ k \in DOMAIN EntryOf(line)
                /\ EntryOf(line)[k] = map[k]

\* C18: over a log of complete snapshot groups whose last one ends with
\* progress=end, written in whole lines, monitor never returns a decoding
\* error (after which it could no more send Finished and return Ok).
C18_NoFatalOnWellFormedLog ==
    plan.kind \in {"groups", "lines", "early"} => monitorRes.cause # "serde_json"

\* C19: over the round-trip log, whose only snapshot with progress=continue
\* is the first, every Progress event carries the frame of the first snapshot.
C19_SnapshotConsistent ==
    plan.kind \in {"groups", "lines", "early"} =>
        \A i \in 1..Len(events) :
            events[i].type = "Progress" => events[i].chunk_length = DecVal(Frame1)

\* C20: when merge has returned a failure, no Finished event was sent.
C20_NoFinishedOnFailure ==
    (pc = "done" /\ result.kind # "Ok") => ~Sent("Finished")

====
